---- MODULE Spec2Model ----
(***************************************************************************)
(* Model of IMDb_EDA.py: the pipeline get_top_100_movies -> to_csv ->      *)
(* analyze_data -> create_visualizations -> top_movies_by_genre.           *)
(*                                                                         *)
(* Text is a sequence of one-character strings, so that splitting on the  *)
(* comma and substring search are computed, not assumed.  A table is a     *)
(* record [columns, rows]; a row is a function from column names.          *)
(* A nullable number is <<>> (absent) or <<n>>.  Ratings are in tenths.    *)
(* A float64 or object cell that pandas filled with NaN holds the in-band  *)
(* value NaN, which no title, rating or vote count equals.                 *)
(***************************************************************************)
EXTENDS Integers, Sequences, FiniteSets, TLC

VARIABLES
    pc,         \* position of the __main__ block
    failedAt,   \* the step whose exception ended the run, or "none"
    basics,     \* title.basics table as parsed by read_csv
    ratings,    \* title.ratings table as parsed by read_csv
    movies,     \* the DataFrame bound to `movies` in __main__
    csvFile,    \* top_100_imdb_movies.csv as written by this run
    pngFile,    \* movie_analysis.png as written by this run
    report,     \* what analyze_data printed
    genreArg,   \* the DataFrame top_movies_by_genre received
    genre_df,   \* the exploded frame inside top_movies_by_genre
    leaders,    \* what top_movies_by_genre printed
    vcMemo      \* tie orders value_counts has produced so far, per input

vars == <<pc, failedAt, basics, ratings, movies, csvFile, pngFile, report,
          genreArg, genre_df, leaders, vcMemo>>

----------------------------------------------------------------------------
(* Program constants *)

TopN == 100          \* .head(100)
RankStart == 1       \* range(1, 101)
RankStop == 101      \* range(1, 101)
TopGenresReport == 3 \* value_counts().head(3) in analyze_data
TopGenresPlot == 5   \* value_counts().head(5) in create_visualizations
TopGenresRank == 3   \* value_counts().head(3) in top_movies_by_genre
GroupHead == 10      \* groupby('Genres').head(10)
ShowHead == 3        \* .head(3)
DecadeSpan == 10     \* (Year // 10) * 10
AnnotateTop == 5     \* df.nlargest(5, 'Rating')

(* Bounds of the generated input tables *)

MaxExtra == 2        \* the largest metadata table has TopN + MaxExtra rows
SmallRows == 3       \* size of the small metadata table

----------------------------------------------------------------------------
(* Text *)

NA == <<"<NA>">>                       \* pd.NA in a text column
NaN == 0 - 1                           \* np.nan in a column of titles, ratings or votes
IsNaN(x) == x = NaN
Marker == <<"\\", "N">>                \* the literal \N of the IMDb dumps
Comma == ","
Movie == <<"m", "o", "v", "i", "e">>
Short == <<"s", "h", "o", "r", "t">>

\* Characters in code-point order.
Alphabet == <<"\"", ",", ".", "0", "1", "2", "3", "4", "5", "6", "7", "8", "9",
              "A", "C", "D", "M", "N", "R", "\\",
              "c", "e", "h", "i", "m", "o", "r", "s", "t", "u", "v">>

CharCode(c) == CHOOSE k \in 1..Len(Alphabet) : Alphabet[k] = c

Digits == <<"0", "1", "2", "3", "4", "5", "6", "7", "8", "9">>
IsDigit(c) == \E d \in 1..Len(Digits) : Digits[d] = c
DigitValue(c) == (CHOOSE d \in 1..Len(Digits) : Digits[d] = c) - 1

Min(a, b) == IF a < b THEN a ELSE b

\* DataFrame.head / Series.head on a sequence of rows
HeadN(s, n) == SubSeq(s, 1, Min(n, Len(s)))

\* pd.to_numeric(..., errors='coerce') on one cell: digits parse, anything else is absent
RECURSIVE ParseDigits(_, _)
ParseDigits(txt, acc) ==
    IF txt = <<>> THEN acc
    ELSE ParseDigits(Tail(txt), acc * 10 + DigitValue(txt[1]))

ToNumeric(cell) ==
    IF cell = NA \/ cell = <<>> THEN <<>>
    ELSE IF \A k \in 1..Len(cell) : IsDigit(cell[k]) THEN <<ParseDigits(cell, 0)>>
    ELSE <<>>

\* str.split(',') on one cell: the labels between the commas
RECURSIVE SplitFrom(_, _, _)
SplitFrom(txt, k, cur) ==
    IF k > Len(txt) THEN <<cur>>
    ELSE IF txt[k] = Comma THEN <<cur>> \o SplitFrom(txt, k + 1, <<>>)
    ELSE SplitFrom(txt, k + 1, Append(cur, txt[k]))

StrSplit(cell) == IF cell = NA THEN NA ELSE SplitFrom(cell, 1, <<>>)

\* str.contains(pat) on one cell: pat occurs somewhere in the text
StrContains(cell, pat) ==
    \E k \in 1..(Len(cell) - Len(pat) + 1) : SubSeq(cell, k, k + Len(pat) - 1) = pat

\* Code-point order on text, as sort_values orders an object column
RECURSIVE TextLess(_, _)
TextLess(a, b) ==
    IF b = <<>> THEN FALSE
    ELSE IF a = <<>> THEN TRUE
    ELSE IF a[1] = b[1] THEN TextLess(Tail(a), Tail(b))
    ELSE CharCode(a[1]) < CharCode(b[1])

----------------------------------------------------------------------------
(* Generated input tables.  Every table has unique identifiers and every   *)
(* genres cell lists distinct labels, as the IMDb dumps do.                *)

Dr == <<"D", "r">>
Ac == <<"A", "c">>
Co == <<"C", "o">>
Mu == <<"M", "u">>
Mus == <<"M", "u", "s">>

Join2(a, b) == a \o <<Comma>> \o b
Join3(a, b, c) == a \o <<Comma>> \o b \o <<Comma>> \o c

GenresOf(gp, i) ==
    CASE gp = "plain" ->
           <<Dr, Join2(Ac, Dr), Co, Join3(Ac, Co, Dr)>>[(i % 4) + 1]
      [] gp = "music" ->
           <<Join2(Dr, Mu), Mus, Dr, Join2(Co, Mus), Join2(Dr, Mu)>>[(i % 5) + 1]
      [] gp = "withNA" ->
           <<Dr, Marker, Join2(Ac, Dr), Co>>[(i % 4) + 1]

YearTexts == << <<"1", "9", "9", "4">>, <<"2", "0", "0", "8">>,
                <<"1", "9", "7", "2">>, <<"2", "0", "1", "0">> >>

YearOf(yp, i) ==
    CASE yp = "present" -> YearTexts[(i % 4) + 1]
      [] yp = "someAbsent" -> IF i % 5 = 0 THEN Marker ELSE YearTexts[(i % 4) + 1]
      [] yp = "allAbsent" -> Marker

RuntimeTexts == << <<"1", "4", "2">>, <<"9", "5">>, <<"1", "7", "5">> >>

RuntimeOf(mp, i) ==
    CASE mp = "sixthAbsent" -> IF i % 6 = 0 THEN Marker ELSE RuntimeTexts[(i % 3) + 1]
      [] mp = "firstAbsent" -> IF i = 1 THEN Marker ELSE RuntimeTexts[(i % 3) + 1]
      [] mp = "present" -> RuntimeTexts[(i % 3) + 1]

TypeOf(tp, i) ==
    CASE tp = "allMovies" -> Movie
      [] tp = "thirdShort" -> IF i % 3 = 0 THEN Short ELSE Movie
      [] tp = "firstShort" -> IF i = 1 THEN Short ELSE Movie
      [] tp = "allShort" -> Short

VotesOf(vp, i) ==
    CASE vp = "asc" -> 1000 + i
      [] vp = "desc" -> 2000 - i
      [] vp = "scramble" -> 1000 + ((i * 37) % 101)
      [] vp = "lowtie" -> IF i <= 3 THEN 500 ELSE 1000 + i
      [] vp = "hightie" -> IF i \in {5, 6} THEN 9000 ELSE 1000 + i

RatingOf(i) == 70 + ((i * 3) % 20)

BasicsColumns == <<"tconst", "titleType", "primaryTitle", "startYear",
                   "runtimeMinutes", "genres">>
RatingsColumns == <<"tconst", "averageRating", "numVotes">>

BasicsRow(s, i) ==
    [tconst |-> i, titleType |-> TypeOf(s.tp, i), primaryTitle |-> i,
     startYear |-> YearOf(s.yp, i), runtimeMinutes |-> RuntimeOf(s.mp, i),
     genres |-> GenresOf(s.gp, i)]

RatingsRow(s, i) ==
    [tconst |-> i, averageRating |-> RatingOf(i), numVotes |-> VotesOf(s.vp, i)]

\* The ratings table lists the identifiers in descending order; under "dropLast" it
\* lacks the last title of the metadata table and rates a title the metadata lacks.
RatedIds(s) ==
    IF s.rp = "all" THEN [k \in 1..s.n |-> s.n + 1 - k]
    ELSE [k \in 1..s.n |-> s.n + 2 - k]

\* read_csv leaves runtimeMinutes a column of text when some cell is no number
MakeBasics(s) ==
    [columns |-> BasicsColumns, rows |-> [i \in 1..s.n |-> BasicsRow(s, i)],
     runtimeDtype |-> IF \E i \in 1..s.n : RuntimeOf(s.mp, i) = Marker
                      THEN "object" ELSE "int64"]

MakeRatings(s) ==
    [columns |-> RatingsColumns,
     rows |-> [k \in 1..s.n |-> RatingsRow(s, RatedIds(s)[k])]]

RowCounts == {SmallRows} \cup ((TopN - 1)..(TopN + MaxExtra))
VotePatterns == {"asc", "desc", "scramble", "lowtie", "hightie"}
TypePatterns == {"allMovies", "thirdShort", "firstShort", "allShort"}
RatedPatterns == {"all", "dropLast"}
GenrePatterns == {"plain", "music", "withNA"}
YearPatterns == {"present", "someAbsent", "allAbsent"}
RuntimePatterns == {"sixthAbsent", "firstAbsent", "present"}

BaseScenario ==
    [n |-> TopN, vp |-> "asc", tp |-> "allMovies", rp |-> "all",
     gp |-> "plain", yp |-> "present", mp |-> "sixthAbsent"]

Deviations(s) == Cardinality({f \in DOMAIN s : s[f] # BaseScenario[f]})

\* The scenarios that differ from the base one in at most two respects.
Scenarios ==
    {s \in [n : RowCounts, vp : VotePatterns, tp : TypePatterns,
            rp : RatedPatterns, gp : GenrePatterns, yp : YearPatterns,
            mp : RuntimePatterns] :
        Deviations(s) <= 2}

----------------------------------------------------------------------------
(* Tables *)

NoFrame == [columns |-> <<>>, rows |-> <<>>]
NoFile == [written |-> FALSE, header |-> <<>>, lines |-> <<>>]

SeqRange(s) == {s[k] : k \in 1..Len(s)}

\* A sequence given as a function, written out element by element
Listed(f) == f \o <<>>

\* Stable ascending order of integer keys: the permutation a stable sort applies
\* (element i goes behind every smaller key and every equal key before it)
StableOrder(keys) ==
    LET n == Len(keys)
        ks == Listed(keys)
        pos == Listed([i \in 1..n |->
                   Cardinality({j \in 1..n : ks[j] < ks[i] \/ (ks[j] = ks[i] /\ j < i)}) + 1])
    IN  Listed([p \in 1..n |-> CHOOSE i \in 1..n : pos[i] = p])

Perms(s) ==
    {q \in [1..Len(s) -> SeqRange(s)] : \A a, b \in 1..Len(s) : a # b => q[a] # q[b]}

\* Every order an unstable sort may give: keys ascending, equal keys in any order.
\* A run is a maximal stretch of equal keys in the sorted order.
UnstableOrders(keys) ==
    LET n == Len(keys)
        ks == Listed(keys)
        ord == StableOrder(ks)
        IsFirst(k) == k = 1 \/ ks[ord[k - 1]] # ks[ord[k]]
        IsLast(k) == k = n \/ ks[ord[k + 1]] # ks[ord[k]]
        starts == {k \in 1..n : IsFirst(k) /\ ~IsLast(k)}
        LastOf(a) == CHOOSE b \in a..n : IsLast(b) /\ \A m \in a..b : ks[ord[m]] = ks[ord[a]]
        FirstOf(k) == CHOOSE a \in 1..k : IsFirst(a) /\ \A m \in a..k : ks[ord[m]] = ks[ord[k]]
        Run(a) == SubSeq(ord, a, LastOf(a))
        choices == {f \in [starts -> UNION {Perms(Run(a)) : a \in starts}] :
                      \A a \in starts : f[a] \in Perms(Run(a))}
    IN  {Listed([k \in 1..n |->
                   IF FirstOf(k) \in starts THEN f[FirstOf(k)][k - FirstOf(k) + 1]
                   ELSE ord[k]]) : f \in choices}

Reorder(s, ord) == [k \in 1..Len(ord) |-> s[ord[k]]]

----------------------------------------------------------------------------
(* get_top_100_movies *)

\* basics.merge(ratings, on='tconst'): inner join, left order kept
Merge(left, right) ==
    LET Rated(b) == \E k \in 1..Len(right.rows) : right.rows[k].tconst = b.tconst
        kept == SelectSeq(left.rows, Rated)
        Other(b) == CHOOSE k \in 1..Len(right.rows) : right.rows[k].tconst = b.tconst
        NotKey(c) == c # "tconst"
    IN  [columns |-> left.columns \o SelectSeq(right.columns, NotKey),
         rows |-> [k \in 1..Len(kept) |-> kept[k] @@ right.rows[Other(kept[k])]],
         runtimeDtype |-> left.runtimeDtype]

\* movies[movies['titleType'] == 'movie']
FilterMovies(frame) ==
    LET IsMovie(r) == r.titleType = Movie
    IN  [frame EXCEPT !.rows = SelectSeq(frame.rows, IsMovie)]

TextColumns == {"titleType", "startYear", "runtimeMinutes", "genres"}

\* movies.replace('\\N', pd.NA)
ReplaceMarker(frame) ==
    [frame EXCEPT !.rows =
        [k \in 1..Len(frame.rows) |->
            [c \in DOMAIN frame.rows[k] |->
                IF c \in TextColumns /\ frame.rows[k][c] = Marker THEN NA
                ELSE frame.rows[k][c]]]]

\* pd.to_numeric(..., errors='coerce') on startYear and runtimeMinutes.  The runtime
\* column becomes float64 when some cell of it is absent, int64 otherwise; the dtype
\* is that of the whole column here, before any row is cut.
Coerce(frame) ==
    [frame EXCEPT !.rows =
        [k \in 1..Len(frame.rows) |->
            [frame.rows[k] EXCEPT !.startYear = ToNumeric(@),
                                  !.runtimeMinutes = ToNumeric(@)]],
                  !.runtimeDtype =
        IF \A k \in 1..Len(frame.rows) : ToNumeric(frame.rows[k].runtimeMinutes) # <<>>
        THEN "int64" ELSE "float64"]

Cleaned(b, r) == Coerce(ReplaceMarker(FilterMovies(Merge(b, r))))

\* Variant: the sort left ascending (ascending=False forgotten)
SortByVotesAscending(frame) ==
    UnstableOrders([k \in 1..Len(frame.rows) |-> frame.rows[k].numVotes])

\* The orders sort_values('numVotes', ascending=False) may give: the default kind
\* is quicksort, which leaves the order of equal keys unspecified.
SortByVotesOrders(frame) ==
    UnstableOrders([k \in 1..Len(frame.rows) |-> 0 - frame.rows[k].numVotes])

\* Variant: head(100) taken before the sort instead of after it
HeadThenSort(frame, ord) ==
    LET InHead(i) == i <= TopN
    IN  [frame EXCEPT !.rows = Reorder(frame.rows, SelectSeq(ord, InHead))]

\* .sort_values(...).head(100) under one such order
SortHead(frame, ord) == [frame EXCEPT !.rows = HeadN(Reorder(frame.rows, ord), TopN)]

\* movies.insert(0, 'Rank', range(1, 101)) raises ValueError unless the lengths match;
\* a frame without rows first takes the index of the inserted values, so it matches
InsertRankOk(frame) == Len(frame.rows) = 0 \/ Len(frame.rows) = RankStop - RankStart

\* What reindexing fills a new row with: <NA> in the Int64 year, NaN elsewhere
MissingCell(c) ==
    CASE c \in {"startYear", "runtimeMinutes"} -> <<>>
      [] c \in {"titleType", "genres"} -> NA
      [] OTHER -> NaN

\* A frame without rows becomes one row of missing values per inserted value
Reindexed(frame) ==
    IF Len(frame.rows) = 0
    THEN [frame EXCEPT !.rows = [k \in 1..(RankStop - RankStart) |->
                                    [c \in SeqRange(frame.columns) |-> MissingCell(c)]],
                       !.runtimeDtype = "float64"]
    ELSE frame

InsertRank(frame) ==
    [Reindexed(frame) EXCEPT
        !.columns = <<"Rank">> \o @,
        !.rows = [k \in 1..Len(@) |-> ("Rank" :> (RankStart + k - 1)) @@ @[k]]]

NewName(c) ==
    CASE c = "primaryTitle" -> "Title"
      [] c = "startYear" -> "Year"
      [] c = "averageRating" -> "Rating"
      [] c = "numVotes" -> "Votes"
      [] c = "genres" -> "Genres"
      [] c = "runtimeMinutes" -> "Runtime (min)"
      [] OTHER -> c

OldName(frame, c) == CHOOSE o \in SeqRange(frame.columns) : NewName(o) = c

\* movies.rename(columns={...})
Rename(frame) ==
    [frame EXCEPT
        !.columns = [k \in 1..Len(frame.columns) |-> NewName(frame.columns[k])],
        !.rows = [k \in 1..Len(frame.rows) |->
                    [c \in {NewName(o) : o \in SeqRange(frame.columns)} |->
                        frame.rows[k][OldName(frame, c)]]]]

PublicColumns == <<"Rank", "Title", "Year", "Rating", "Votes", "Runtime (min)", "Genres">>

\* movies[[...]]
SelectColumns(frame, cols) ==
    [frame EXCEPT
        !.columns = cols,
        !.rows = [k \in 1..Len(frame.rows) |-> [c \in SeqRange(cols) |-> frame.rows[k][c]]]]

Top100(frame, ord) ==
    SelectColumns(Rename(InsertRank(SortHead(frame, ord))), PublicColumns)

Fail(step) ==
    /\ pc' = "failed"
    /\ failedAt' = step

get_top_100_movies ==
    /\ pc = "start"
    /\ \E download \in {"ok", "error"} :
         IF download = "error"
         THEN /\ Fail("read_csv")
              /\ UNCHANGED movies
         ELSE LET frame == Cleaned(basics, ratings)
              IN  \E ord \in SortByVotesOrders(frame) :
                    IF InsertRankOk(SortHead(frame, ord))
                    THEN /\ movies' = Top100(frame, ord)
                         /\ pc' = "to_csv"
                         /\ UNCHANGED failedAt
                    ELSE /\ Fail("insert")
                         /\ UNCHANGED movies
    /\ UNCHANGED <<basics, ratings, csvFile, pngFile, report, genreArg, genre_df,
                   leaders, vcMemo>>

----------------------------------------------------------------------------
(* movies.to_csv('top_100_imdb_movies.csv', index=False) *)

RECURSIVE FormatNat(_)
FormatNat(n) ==
    IF n < 10 THEN <<Digits[n + 1]>>
    ELSE Append(FormatNat(n \div 10), Digits[(n % 10) + 1])

Quote(txt) ==
    IF \E k \in 1..Len(txt) : txt[k] = Comma THEN <<"\"">> \o txt \o <<"\"">> ELSE txt

\* Runtime is written as a float when its column is float64
RuntimeIsFloat(frame) == frame.runtimeDtype = "float64"

CsvCell(frame, row, c) ==
    CASE c = "Rank" -> FormatNat(row[c])
      [] c \in {"Title", "Votes"} -> IF IsNaN(row[c]) THEN <<>> ELSE FormatNat(row[c])
      [] c = "Rating" ->
           IF IsNaN(row[c]) THEN <<>>
           ELSE FormatNat(row[c] \div 10) \o <<".">> \o FormatNat(row[c] % 10)
      [] c \in {"Year", "Decade"} -> IF row[c] = <<>> THEN <<>> ELSE FormatNat(row[c][1])
      [] c = "Runtime (min)" ->
           IF row[c] = <<>> THEN <<>>
           ELSE IF RuntimeIsFloat(frame) THEN FormatNat(row[c][1]) \o <<".", "0">>
           ELSE FormatNat(row[c][1])
      [] c = "Genres" -> IF row[c] = NA THEN <<>> ELSE Quote(row[c])

\* Variant: to_csv called without the path, which writes no file
ToCsvNoPath(frame) == [written |-> FALSE, header |-> <<>>, lines |-> <<>>]

ToCsv(frame) ==
    [written |-> TRUE,
     header |-> frame.columns,
     lines |-> [k \in 1..Len(frame.rows) |->
                  [j \in 1..Len(frame.columns) |->
                      CsvCell(frame, frame.rows[k], frame.columns[j])]]]

to_csv ==
    /\ pc = "to_csv"
    /\ csvFile' = ToCsv(movies)
    /\ pc' = "analyze_data"
    /\ UNCHANGED <<failedAt, basics, ratings, movies, pngFile, report, genreArg,
                   genre_df, leaders, vcMemo>>

----------------------------------------------------------------------------

(* Column helpers *)

Column(frame, c) == [k \in 1..Len(frame.rows) |-> frame.rows[k][c]]

RECURSIVE SumRange(_, _, _)
SumRange(f, lo, hi) ==
    IF lo > hi THEN 0
    ELSE IF lo = hi THEN f[lo]
    ELSE SumRange(f, lo, (lo + hi) \div 2) + SumRange(f, ((lo + hi) \div 2) + 1, hi)

Sum(f) == SumRange(Listed(f), 1, Len(f))

\* A finite set of integers in ascending order
Ascending(S) ==
    Listed([r \in 1..Cardinality(S) |->
               CHOOSE p \in S : Cardinality({q \in S : q < p}) = r - 1])

\* Series.str.split(','): a list of labels per cell, NA where the cell is absent
SplitColumn(cells) == [k \in 1..Len(cells) |-> StrSplit(cells[k])]

\* explode(): where each element of the result comes from, <<row, place in its list>>;
\* a cell that is no list (NA) stays one element
ExplodeIndex(lists) ==
    LET n == Len(lists)
        ls == Listed(lists)
        Size(k) == IF ls[k] = NA THEN 1 ELSE Len(ls[k])
        offset == Listed([k \in 1..n |->
                     Cardinality(UNION {{<<j, m>> : m \in 1..Size(j)} : j \in 1..(k - 1)})])
        total == IF n = 0 THEN 0 ELSE offset[n] + Size(n)
        RowAt(p) == CHOOSE k \in 1..n : offset[k] < p /\ p <= offset[k] + Size(k)
    IN  Listed([p \in 1..total |-> <<RowAt(p), p - offset[RowAt(p)]>>])

Exploded(lists, at) == IF lists[at[1]] = NA THEN NA ELSE lists[at[1]][at[2]]

\* Series.explode()
ExplodeSeries(lists) ==
    LET idx == ExplodeIndex(lists)
    IN  Listed([p \in 1..Len(idx) |-> Exploded(lists, idx[p])])

\* DataFrame.explode('Genres'): the row repeated once per element of its list
ExplodeFrame(frame) ==
    LET lists == Listed(Column(frame, "Genres"))
        idx == ExplodeIndex(lists)
    IN  [frame EXCEPT !.rows =
            Listed([p \in 1..Len(idx) |->
                [frame.rows[idx[p][1]] EXCEPT !["Genres"] = Exploded(lists, idx[p])]])]

\* value_counts() before its sort: the distinct values in order of first appearance,
\* each with its number of occurrences; NA is dropped
CountTable(series) ==
    LET sv == Listed(series)
        n == Len(sv)
        firsts == Ascending({p \in 1..n : sv[p] # NA /\ \A q \in 1..(p - 1) : sv[q] # sv[p]})
    IN  Listed([r \in 1..Len(firsts) |->
                   [label |-> sv[firsts[r]],
                    count |-> Cardinality({q \in 1..n : sv[q] = sv[firsts[r]]})]])

\* The orders value_counts() may give a table: count descending; it sorts with the
\* default kind (quicksort), so equal counts come in an unspecified order
ValueCountsOrders(table) ==
    {Reorder(table, ord) :
        ord \in UnstableOrders([r \in 1..Len(table) |-> 0 - table[r].count])}

\* The sort is a deterministic function of its input: within one run the same table
\* is ordered the same way every time
ValueCounts(memo, table) ==
    IF table \in DOMAIN memo THEN {memo[table]} ELSE ValueCountsOrders(table)

Remember(memo, table, vc) == (table :> vc) @@ memo

Labels(vc) == [r \in 1..Len(vc) |-> vc[r].label]

----------------------------------------------------------------------------
(* analyze_data(df) *)

Present(cells) == {cells[k][1] : k \in {j \in 1..Len(cells) : cells[j] # <<>>}}

Smallest(S) == CHOOSE x \in S : \A y \in S : x <= y
Largest(S) == CHOOSE x \in S : \A y \in S : y <= x

\* df[df['Year'] == y]['Title'].values[0]
FirstTitleOfYear(frame, y) ==
    frame.rows[Smallest({k \in 1..Len(frame.rows) : frame.rows[k]["Year"] = <<y>>})]["Title"]

\* Variant: the Genres cells counted whole, neither split nor exploded
ReportLabelTableUnsplit(frame) == CountTable(Column(frame, "Genres"))

\* df['Genres'].str.split(',').explode() before value_counts()
ReportLabelTable(frame) ==
    CountTable(ExplodeSeries(SplitColumn(Column(frame, "Genres"))))

\* Series.sum() and the count behind Series.mean(), both of which skip NaN
SumSkipNaN(cells) == Sum([k \in 1..Len(cells) |-> IF IsNaN(cells[k]) THEN 0 ELSE cells[k]])
CountSkipNaN(cells) == Cardinality({k \in 1..Len(cells) : ~IsNaN(cells[k])})

\* The figures of the first five printed lines (means as sum and count)
ReportHead(frame) ==
    LET runtimes == Column(frame, "Runtime (min)")
        timed == {k \in 1..Len(runtimes) : runtimes[k] # <<>>}
    IN  [count |-> Len(frame.rows),
         ratingSum |-> SumSkipNaN(Column(frame, "Rating")),
         ratingCount |-> CountSkipNaN(Column(frame, "Rating")),
         runtimeSum |-> Sum([k \in 1..Len(runtimes) |->
                                IF k \in timed THEN runtimes[k][1] ELSE 0]),
         runtimeCount |-> Cardinality(timed),
         totalVotes |-> SumSkipNaN(Column(frame, "Votes"))]

\* All the figures analyze_data prints, given the value_counts order
Report(frame, vc) ==
    LET years == Present(Column(frame, "Year"))
    IN  ReportHead(frame) @@
        [oldest |-> <<Smallest(years), FirstTitleOfYear(frame, Smallest(years))>>,
         newest |-> <<Largest(years), FirstTitleOfYear(frame, Largest(years))>>,
         topGenres |-> HeadN(vc, TopGenresReport)]

\* .values[0] raises IndexError when no row has a year
ReportOk(frame) == Present(Column(frame, "Year")) # {}

analyze_data ==
    /\ pc = "analyze_data"
    /\ IF ReportOk(movies)
       THEN LET table == ReportLabelTable(movies)
            IN  \E vc \in ValueCounts(vcMemo, table) :
                  /\ report' = Report(movies, vc)
                  /\ vcMemo' = Remember(vcMemo, table, vc)
                  /\ pc' = "create_visualizations"
                  /\ UNCHANGED failedAt
       ELSE /\ Fail("analyze_data")
            /\ report' = ReportHead(movies)
            /\ UNCHANGED vcMemo
    /\ UNCHANGED <<basics, ratings, movies, csvFile, pngFile, genreArg, genre_df,
                   leaders>>

----------------------------------------------------------------------------
(* create_visualizations(df) *)

NoImage == [written |-> FALSE]

\* df.nlargest(5, 'Rating'): highest ratings first, equal ratings in row order
Annotated(frame) ==
    LET ord == StableOrder([k \in 1..Len(frame.rows) |-> 0 - frame.rows[k]["Rating"]])
    IN  Column([frame EXCEPT !.rows = HeadN(Reorder(frame.rows, ord), AnnotateTop)], "Title")

Decade(year) == IF year = <<>> THEN <<>> ELSE <<(year[1] \div DecadeSpan) * DecadeSpan>>

\* df['Decade'] = (df['Year'] // 10) * 10 : a new column on the caller's DataFrame
WithDecade(frame) ==
    [frame EXCEPT
        !.columns = IF "Decade" \in SeqRange(frame.columns) THEN frame.columns
                    ELSE Append(frame.columns, "Decade"),
        !.rows = [k \in 1..Len(frame.rows) |->
                    ("Decade" :> Decade(frame.rows[k]["Year"])) @@ frame.rows[k]]]

\* df['Decade'].value_counts().sort_index()
DecadeCounts(frame) ==
    LET cells == Listed(Column(frame, "Decade"))
        decades == Ascending(Present(cells))
    IN  [r \in 1..Len(decades) |->
            <<decades[r], Cardinality({k \in 1..Len(cells) : cells[k] = <<decades[r]>>})>>]

PlotLabelTable(frame) ==
    CountTable(ExplodeSeries(SplitColumn(Column(frame, "Genres"))))

\* df[df['Genres'].str.contains(genre)]: the rows whose Genres text contains the label;
\* absent Genres count as no match when the mask comes out boolean
GenreMovies(frame, genre) ==
    LET Matches(r) == r["Genres"] # NA /\ StrContains(r["Genres"], genre)
    IN  SelectSeq(frame.rows, Matches)

\* genre_data: per top genre, in order, the ratings of its rows
GenreData(frame, genres) ==
    [g \in 1..Len(genres) |->
        [Genre |-> genres[g], Ratings |-> Column([frame EXCEPT !.rows =
                                             GenreMovies(frame, genres[g])], "Rating")]]

SomeGenresAbsent(frame) == \E k \in 1..Len(frame.rows) : frame.rows[k]["Genres"] = NA

\* With an absent Genres cell the mask of str.contains holds NA on an object column,
\* and indexing with it raises; on a string-dtype column the mask is boolean.
MaskOutcomes(frame) == IF SomeGenresAbsent(frame) THEN {"raises", "boolean"} ELSE {"boolean"}

Image(frame, vc) ==
    [written |-> TRUE,
     annotated |-> Annotated(frame),
     decade_counts |-> DecadeCounts(WithDecade(frame)),
     genre_data |-> GenreData(frame, Labels(HeadN(vc, TopGenresPlot)))]

create_visualizations ==
    /\ pc = "create_visualizations"
    /\ movies' = WithDecade(movies)
    /\ LET table == PlotLabelTable(movies)
       IN  \E vc \in ValueCounts(vcMemo, table), mask \in MaskOutcomes(movies) :
             /\ vcMemo' = Remember(vcMemo, table, vc)
             /\ IF mask = "raises" /\ Len(vc) > 0
                THEN /\ Fail("create_visualizations")
                     /\ UNCHANGED pngFile
                ELSE /\ pngFile' = Image(movies, vc)
                     /\ pc' = "top_movies_by_genre"
                     /\ UNCHANGED failedAt
    /\ UNCHANGED <<basics, ratings, csvFile, report, genreArg, genre_df, leaders>>

----------------------------------------------------------------------------
(* top_movies_by_genre(df) *)

\* Variant: only the first label of each row kept instead of one row per label
GenreFrameFirstLabel(frame) ==
    [frame EXCEPT !.rows =
        [k \in 1..Len(frame.rows) |->
            [frame.rows[k] EXCEPT !["Genres"] = IF @ = NA THEN NA ELSE StrSplit(@)[1]]]]

\* genre_df = df.copy(); genre_df['Genres'] = genre_df['Genres'].str.split(',');
\* genre_df = genre_df.explode('Genres')
GenreFrame(frame) ==
    ExplodeFrame([frame EXCEPT !.rows =
        [k \in 1..Len(frame.rows) |->
            [frame.rows[k] EXCEPT !["Genres"] = StrSplit(@)]]])

\* Position of a label among the labels of the column in code-point order; NaN last
GenreCode(label, labels) ==
    IF label = NA THEN Cardinality(labels)
    ELSE Cardinality({l \in labels : TextLess(l, label)})

\* sort_values(['Genres', by], ascending=[True, False]): a lexsort, which is stable:
\* by descending first, then Genres ascending, each keeping the order it finds
SortGenresThen(frame, by) ==
    LET rows == Listed(frame.rows)
        first == Reorder(rows, StableOrder([k \in 1..Len(rows) |-> 0 - rows[k][by]]))
        labels == {rows[k]["Genres"] : k \in 1..Len(rows)} \ {NA}
        codes == Listed([k \in 1..Len(first) |-> GenreCode(first[k]["Genres"], labels)])
    IN  [frame EXCEPT !.rows = Reorder(first, StableOrder(codes))]

\* Variant: groupby('Genres').tail(n), the last n rows of each label
GroupByTail(frame, n) ==
    LET rows == Listed(frame.rows)
        keep == {k \in 1..Len(rows) :
                    /\ rows[k]["Genres"] # NA
                    /\ Cardinality({j \in (k + 1)..Len(rows) :
                           rows[j]["Genres"] = rows[k]["Genres"]}) < n}
    IN  [frame EXCEPT !.rows = Reorder(rows, Ascending(keep))]

\* groupby('Genres').head(n): the first n rows of each label, in the order of the frame
GroupByHead(frame, n) ==
    LET rows == Listed(frame.rows)
        keep == {k \in 1..Len(rows) :
                    /\ rows[k]["Genres"] # NA
                    /\ Cardinality({j \in 1..(k - 1) :
                           rows[j]["Genres"] = rows[k]["Genres"]}) < n}
    IN  [frame EXCEPT !.rows = Reorder(rows, Ascending(keep))]

\* top[top['Genres'] == genre].head(3)[[...]]
Shown(frame, genre, cols) ==
    LET Is(r) == r["Genres"] = genre
    IN  SelectColumns([frame EXCEPT !.rows = HeadN(SelectSeq(frame.rows, Is), ShowHead)],
                      cols).rows

RankLabelTable(gframe) == CountTable(Column(gframe, "Genres"))

\* What the loop over the top genres prints
Leaders(gframe, vc) ==
    LET top_by_rating == GroupByHead(SortGenresThen(gframe, "Rating"), GroupHead)
        top_by_votes == GroupByHead(SortGenresThen(gframe, "Votes"), GroupHead)
        top_genres == Labels(HeadN(vc, TopGenresRank))
    IN  [g \in 1..Len(top_genres) |->
            [genre |-> top_genres[g],
             rating_top |-> Shown(top_by_rating, top_genres[g], <<"Title", "Rating", "Year">>),
             votes_top |-> Shown(top_by_votes, top_genres[g], <<"Title", "Votes", "Year">>)]]

top_movies_by_genre ==
    /\ pc = "top_movies_by_genre"
    /\ genreArg' = movies
    /\ genre_df' = GenreFrame(movies)
    /\ LET table == RankLabelTable(GenreFrame(movies))
       IN  \E vc \in ValueCounts(vcMemo, table) :
             /\ vcMemo' = Remember(vcMemo, table, vc)
             /\ leaders' = Leaders(GenreFrame(movies), vc)
    /\ pc' = "done"
    /\ UNCHANGED <<failedAt, basics, ratings, movies, csvFile, pngFile, report>>

----------------------------------------------------------------------------

Init ==
    /\ pc = "start"
    /\ failedAt = "none"
    /\ \E s \in Scenarios :
         /\ basics = MakeBasics(s)
         /\ ratings = MakeRatings(s)
    /\ movies = NoFrame
    /\ csvFile = NoFile
    /\ pngFile = NoImage
    /\ report = <<>>
    /\ genreArg = NoFrame
    /\ genre_df = NoFrame
    /\ leaders = <<>>
    /\ vcMemo = [t \in {} |-> <<>>]

Next ==
    \/ get_top_100_movies
    \/ to_csv
    \/ analyze_data
    \/ create_visualizations
    \/ top_movies_by_genre

Spec == Init /\ [][Next]_vars

----------------------------------------------------------------------------
(* What the claims speak of, stated from the input tables and the outputs *)

\* The identifiers present in both tables whose type marker is 'movie'
QualIds ==
    {basics.rows[k].tconst : k \in {j \in 1..Len(basics.rows) :
        /\ basics.rows[j].titleType = Movie
        /\ \E r \in 1..Len(ratings.rows) : ratings.rows[r].tconst = basics.rows[j].tconst}}

VotesOfId(i) == ratings.rows[CHOOSE r \in 1..Len(ratings.rows) : ratings.rows[r].tconst = i].numVotes

\* Place of a title in the joined, filtered table before it is sorted
JoinedPos(i) ==
    LET joined == Cleaned(basics, ratings).rows
    IN  CHOOSE k \in 1..Len(joined) : joined[k].primaryTitle = i

\* get_top_100_movies was called and has returned
Returned == pc # "start" /\ failedAt \notin {"read_csv", "insert"}

\* get_top_100_movies was called and the download succeeded
Processed == pc # "start" /\ failedAt # "read_csv"

Titles(frame) == {frame.rows[k]["Title"] : k \in 1..Len(frame.rows)}

RanksDense(frame) == \A k \in 1..Len(frame.rows) : frame.rows[k]["Rank"] = k

VotesDescending(frame) ==
    \A k \in 1..(Len(frame.rows) - 1) : frame.rows[k]["Votes"] >= frame.rows[k + 1]["Votes"]

\* The cell text lists the label between its commas
Carries(cell, l) ==
    /\ cell # NA
    /\ \A c \in 1..Len(l) : l[c] # Comma
    /\ \E a \in 1..Len(cell) :
         LET b == a + Len(l) - 1
         IN  /\ b <= Len(cell)
             /\ SubSeq(cell, a, b) = l
             /\ a = 1 \/ cell[a - 1] = Comma
             /\ b = Len(cell) \/ cell[b + 1] = Comma

Vocabulary == {Dr, Ac, Co, Mu, Mus}

\* The rows of the exploded frame filed under a label, in order
Pool(l) ==
    LET Is(r) == r["Genres"] = l
    IN  SelectSeq(genre_df.rows, Is)

RowsCarrying(frame, l) == {k \in 1..Len(frame.rows) : Carries(frame.rows[k]["Genres"], l)}

----------------------------------------------------------------------------
(* C1: with at least 100 qualifying rows get_top_100_movies returns exactly *)
(* 100 rows, Rank is 1..100 in row order, Votes never increases from one    *)
(* rank to the next, and no qualifying row left out has more votes than a   *)
(* returned row.                                                            *)
C1_Top100Ranked ==
    (Processed /\ Cardinality(QualIds) >= 100) =>
        /\ Returned
        /\ Len(movies.rows) = 100
        /\ RanksDense(movies)
        /\ VotesDescending(movies)
        /\ \A i \in QualIds \ Titles(movies) :
             \A k \in 1..Len(movies.rows) : VotesOfId(i) <= movies.rows[k]["Votes"]

C1_Witness ==
    /\ pc = "to_csv"
    /\ Cardinality(QualIds) > 100
    /\ QualIds \ Titles(movies) # {}
    /\ Len(movies.rows) = 100

(* C2: with k qualifying rows, 0 < k < 100, get_top_100_movies raises no    *)
(* error and returns all k rows ranked 1..k.                                *)
C2_FewerRowsReturned ==
    (Processed /\ Cardinality(QualIds) > 0 /\ Cardinality(QualIds) < 100) =>
        /\ failedAt # "insert"
        /\ Titles(movies) = QualIds
        /\ Len(movies.rows) = Cardinality(QualIds)
        /\ RanksDense(movies)

\* The scenario of the claim: three titles, two movies and one short, all rated
TwoMoviesOneShort ==
    /\ Len(basics.rows) = 3
    /\ Cardinality({k \in 1..3 : basics.rows[k].titleType = Movie}) = 2
    /\ Cardinality({k \in 1..3 : basics.rows[k].titleType = Short}) = 1
    /\ \A k \in 1..3 : \E r \in 1..Len(ratings.rows) :
         ratings.rows[r].tconst = basics.rows[k].tconst

(* C3: every returned row is a title present in both tables whose type is   *)
(* 'movie'; with 2 movies and 1 short, all rated, the result holds exactly  *)
(* the 2 movies ordered by vote count.                                      *)
C3_OnlyRatedMovies ==
    /\ Returned => Titles(movies) \subseteq QualIds
    /\ (Processed /\ TwoMoviesOneShort) =>
          /\ Len(movies.rows) = 2
          /\ Titles(movies) = QualIds
          /\ VotesDescending(movies)

(* C4 as claimed: rows with equal vote counts keep the relative order they  *)
(* had in the joined table, and of the rows tied at the 100th position the  *)
(* earliest in that order are the ones included.                            *)
C4_StableTies ==
    Returned =>
        /\ \A a, b \in 1..Len(movies.rows) :
             (/\ a < b
              /\ ~IsNaN(movies.rows[a]["Votes"])
              /\ movies.rows[a]["Votes"] = movies.rows[b]["Votes"]) =>
                 JoinedPos(movies.rows[a]["Title"]) < JoinedPos(movies.rows[b]["Title"])
        /\ \A i \in QualIds \ Titles(movies) : \A k \in 1..Len(movies.rows) :
             movies.rows[k]["Votes"] = VotesOfId(i) =>
                 JoinedPos(movies.rows[k]["Title"]) < JoinedPos(i)

Max(a, b) == IF a > b THEN a ELSE b

\* The vote counts of the qualifying rows, one element per row
QualVotes ==
    LET movieIds == {basics.rows[k].tconst :
                        k \in {j \in 1..Len(basics.rows) : basics.rows[j].titleType = Movie}}
        IsQual(r) == r.tconst \in movieIds
        rated == SelectSeq(ratings.rows, IsQual)
    IN  Listed([k \in 1..Len(rated) |-> rated[k].numVotes])

(* C4 as amended: the result is ordered by vote count alone: a row with     *)
(* more votes precedes a row with fewer, every row that has a vote count is *)
(* a qualifying row with its own vote count, and of the rows with a given   *)
(* vote count the result holds as many as fit behind the rows with more     *)
(* votes, whichever of them those are and in whichever order.               *)
C4_OrderedByVotesOnly ==
    Returned =>
        LET qv == QualVotes
            got == Listed(Column(movies, "Votes"))
        IN  /\ \A a, b \in 1..Len(got) :
                 (~IsNaN(got[a]) /\ ~IsNaN(got[b]) /\ got[a] > got[b]) => a < b
            /\ \A k \in 1..Len(got) :
                 ~IsNaN(got[k]) =>
                    /\ movies.rows[k]["Title"] \in QualIds
                    /\ got[k] = VotesOfId(movies.rows[k]["Title"])
            /\ \A v \in SeqRange(qv) :
                 Cardinality({k \in 1..Len(got) : got[k] = v}) =
                    Min(Cardinality({k \in 1..Len(qv) : qv[k] = v}),
                        Max(0, TopN - Cardinality({k \in 1..Len(qv) : qv[k] > v})))

\* A row tied at the 100th position is included though an earlier tied row is not
C4_Witness ==
    /\ pc = "to_csv"
    /\ \E i \in QualIds \ Titles(movies) : \E k \in 1..Len(movies.rows) :
         /\ movies.rows[k]["Votes"] = VotesOfId(i)
         /\ JoinedPos(i) < JoinedPos(movies.rows[k]["Title"])

(* C5: the steps run in the order Transform, flat-file write, Report,       *)
(* Visualize, Rank-by-category, each after the one before has completed: a  *)
(* failure in Report, Visualize or Rank-by-category leaves the flat file    *)
(* written, a failure in Acquire/Transform leaves neither file written.     *)
C5_StepOrder ==
    /\ csvFile.written => movies # NoFrame
    /\ pc = "to_csv" => ~csvFile.written
    /\ pc \in {"analyze_data", "create_visualizations", "top_movies_by_genre", "done"}
          => csvFile.written
    /\ pc = "analyze_data" => report = <<>>
    /\ report # <<>> => csvFile.written
    /\ pc \in {"to_csv", "analyze_data", "create_visualizations"} => ~pngFile.written
    /\ pngFile.written => report # <<>>
    /\ pc \in {"to_csv", "analyze_data", "create_visualizations", "top_movies_by_genre"}
          => (leaders = <<>> /\ genreArg = NoFrame)
    /\ genreArg # NoFrame => pngFile.written
    /\ pc = "done" => (genreArg # NoFrame /\ pngFile.written /\ csvFile.written)
    /\ failedAt \in {"analyze_data", "create_visualizations", "top_movies_by_genre"}
          => csvFile.written
    /\ failedAt \in {"read_csv", "insert"} => (~csvFile.written /\ ~pngFile.written)

C5_Witness ==
    /\ failedAt = "create_visualizations"
    /\ csvFile.written
    /\ ~pngFile.written
    /\ report # <<>>

(* C6: after the expansion a row whose Genres lists the labels g1..gN is    *)
(* exactly once in the pool of each of g1..gN and in no other pool.         *)
C6_PoolsMatchLabels ==
    pc = "done" =>
        /\ Titles(genre_df) \subseteq Titles(genreArg)
        /\ \A l \in Vocabulary \cup ({genre_df.rows[p]["Genres"] :
                                         p \in 1..Len(genre_df.rows)} \ {NA}) :
             LET filed == Listed(Column([genre_df EXCEPT !.rows = Pool(l)], "Title"))
             IN  \A k \in 1..Len(genreArg.rows) :
                    Cardinality({p \in 1..Len(filed) : filed[p] = genreArg.rows[k]["Title"]})
                      = IF Carries(genreArg.rows[k]["Genres"], l) THEN 1 ELSE 0

C6_Witness ==
    /\ pc = "done"
    /\ \E k \in 1..Len(genreArg.rows) :
         /\ genreArg.rows[k]["Genres"] = Join2(Ac, Dr)
         /\ \E p \in 1..Len(Pool(Ac)) : Pool(Ac)[p]["Title"] = genreArg.rows[k]["Title"]
         /\ \E p \in 1..Len(Pool(Dr)) : Pool(Dr)[p]["Title"] = genreArg.rows[k]["Title"]
         /\ \A p \in 1..Len(Pool(Co)) : Pool(Co)[p]["Title"] # genreArg.rows[k]["Title"]

\* Every label some row of the frame carries
LabelsIn(frame) ==
    UNION {IF frame.rows[k]["Genres"] = NA THEN {}
           ELSE SeqRange(StrSplit(frame.rows[k]["Genres"])) : k \in 1..Len(frame.rows)}

(* C7: the frequency of a label is the number of result rows carrying it,  *)
(* and analyze_data and top_movies_by_genre select the same 3 most frequent *)
(* labels in the same order.                                                *)
C7_LabelFrequencies ==
    pc = "done" =>
        /\ \A r \in 1..Len(report.topGenres) :
             report.topGenres[r].count =
                Cardinality(RowsCarrying(genreArg, report.topGenres[r].label))
        /\ Len(report.topGenres) = Min(3, Cardinality(LabelsIn(genreArg)))
        /\ \A r \in 1..Len(report.topGenres) :
             \A l \in LabelsIn(genreArg) \ SeqRange(Labels(report.topGenres)) :
                Cardinality(RowsCarrying(genreArg, l)) <= report.topGenres[r].count
        /\ \A r \in 1..(Len(report.topGenres) - 1) :
             report.topGenres[r].count >= report.topGenres[r + 1].count
        /\ [g \in 1..Len(leaders) |-> leaders[g].genre] = Labels(report.topGenres)

\* Three labels are selected, two of them equally frequent, from rows of several labels
C7_Witness ==
    /\ pc = "done"
    /\ Len(leaders) = 3
    /\ \E r \in 1..2 : report.topGenres[r].count = report.topGenres[r + 1].count
    /\ \E k \in 1..Len(genreArg.rows) : genreArg.rows[k]["Genres"] = Join3(Ac, Co, Dr)

\* The first 3 rows of a pool ordered by a field descending, equal values in pool order
DirectTop(l, by, cols) ==
    LET pool == Pool(l)
        ord == StableOrder([k \in 1..Len(pool) |-> 0 - pool[k][by]])
        sorted == HeadN(Reorder(pool, ord), 3)
    IN  [k \in 1..Len(sorted) |-> [c \in SeqRange(cols) |-> sorted[k][c]]]

(* C8: for each selected category the rows printed (first 3 of the top 10  *)
(* by rating, first 3 of the top 10 by votes) are the top 3 of the          *)
(* category's pool taken directly under the same ordering.                  *)
C8_TopTenCutInvisible ==
    pc = "done" =>
        \A g \in 1..Len(leaders) :
           /\ leaders[g].rating_top =
                 DirectTop(leaders[g].genre, "Rating", <<"Title", "Rating", "Year">>)
           /\ leaders[g].votes_top =
                 DirectTop(leaders[g].genre, "Votes", <<"Title", "Votes", "Year">>)

\* A selected pool is longer than the cut and its best rating is shared by several rows
C8_Witness ==
    /\ pc = "done"
    /\ \E g \in 1..Len(leaders) :
         /\ Len(Pool(leaders[g].genre)) > GroupHead
         /\ Len(leaders[g].rating_top) = 3
         /\ leaders[g].rating_top[1]["Rating"] = leaders[g].rating_top[3]["Rating"]

(* C9: in Panel C a row's rating is in a label's distribution if and only   *)
(* if the row carries that label as one of its comma-separated categories,  *)
(* also when another of its labels contains that label as a substring.      *)
C9_ViolinMembership ==
    pngFile.written =>
        \A g \in 1..Len(pngFile.genre_data) :
           pngFile.genre_data[g].Ratings =
              LET Has(r) == Carries(r["Genres"], pngFile.genre_data[g].Genre)
              IN  Column([movies EXCEPT !.rows = SelectSeq(movies.rows, Has)], "Rating")

(* C10: Report, Visualize and Rank-by-category leave the result set as      *)
(* Transform returned it: what top_movies_by_genre receives is what was     *)
(* written to the flat file, and Decade exists only inside Visualize.       *)
C10_ResultSetUnchanged ==
    /\ csvFile.written => (movies.columns = csvFile.header /\ ToCsv(movies) = csvFile)
    /\ genreArg # NoFrame => (genreArg.columns = csvFile.header /\ ToCsv(genreArg) = csvFile)

====
